---- MODULE Spec2Model ----
(***************************************************************************)
(* A model of thrift-decoder.py: the ThriftDecoder class (a schema-less    *)
(* reader of Thrift Binary Protocol messages) and DecoderApp.run_app, the  *)
(* command-line loop that decodes one file after another.                  *)
(*                                                                         *)
(* Python values are modelled as follows.  None is the empty tuple and a   *)
(* value that may be None is wrapped in a one-element tuple.  A str is the *)
(* sequence of its code points.  A value read from the wire carries its    *)
(* Python type: <<"int", n>>, <<"bool", b>>, <<"str", s>>, <<"tuple", fs>>.*)
(* An exception is <<kind>> or, for a KeyError, <<"KeyError", key>>.       *)
(* An OrderedDict is the sequence of its <<key, value>> pairs.             *)
(***************************************************************************)
EXTENDS Integers, Sequences, FiniteSets, TLC

(***************************************************************************)
(* Bounds of the model.                                                    *)
(***************************************************************************)
\* nested structs in a generated struct body
MaxStructs == 4
\* largest type tag the generated single-field bodies use
MaxTag == 17
\* largest message type the generated headers use
MaxKind == 4
\* files on the command line of a generated batch
MaxArgs == 2
\* decoder objects an arbitrary caller constructs
MaxObjs == 2
\* decode calls an arbitrary caller makes
MaxCalls == 3

None == <<>>

Some(x) == <<x>>

Min(a, b) == IF a < b THEN a ELSE b

(***************************************************************************)
(* struct.unpack and bytes.decode                                          *)
(***************************************************************************)
RECURSIVE BigEndian(_, _)
BigEndian(acc, bytes) ==
    IF bytes = <<>> THEN acc
    ELSE BigEndian(acc * 256 + Head(bytes), Tail(bytes))

\* struct.calcsize of the fixed formats the decoder uses
calcsize(fmt) ==
    CASE fmt = "!B" -> 1
      [] fmt = "!h" -> 2
      [] fmt = "!i" -> 4
      [] fmt = "!q" -> 8

\* unpack_one for "!B", "!h", "!i", "!q": the value, or None where struct.unpack
\* raises struct.error (the buffer has not the size of the format)
unpack_one(fmt, bytes) ==
    IF Len(bytes) # calcsize(fmt) THEN None
    ELSE IF fmt = "!B" THEN Some(bytes[1])
    ELSE Some(BigEndian(IF bytes[1] >= 128 THEN bytes[1] - 256 ELSE bytes[1],
                        Tail(bytes)))

\* unpack_one('{}s'.format(length), bytes): a negative length gives the format
\* "-1s", which struct rejects
unpack_s(length, bytes) ==
    IF length < 0 \/ Len(bytes) # length THEN None ELSE Some(bytes)

IsCont(b) == b >= 128 /\ b <= 191

\* the payload bits of a continuation byte appended to those before it
RECURSIVE Continue(_, _)
Continue(acc, bytes) ==
    IF bytes = <<>> THEN acc
    ELSE Continue(acc * 64 + (Head(bytes) - 128), Tail(bytes))

\* bytes.decode('utf-8'), strict: the code points, or None for a
\* UnicodeDecodeError
RECURSIVE utf8_decode(_)
utf8_decode(bs) ==
    IF bs = <<>> THEN Some(<<>>)
    ELSE LET b == bs[1]
             n == IF b < 128 THEN 1
                  ELSE IF b >= 194 /\ b <= 223 THEN 2
                  ELSE IF b >= 224 /\ b <= 239 THEN 3
                  ELSE IF b >= 240 /\ b <= 244 THEN 4
                  ELSE 0
             lo2 == IF b = 224 THEN 160 ELSE IF b = 240 THEN 144 ELSE 128
             hi2 == IF b = 237 THEN 159 ELSE IF b = 244 THEN 143 ELSE 191
             ok == /\ n > 0
                   /\ Len(bs) >= n
                   /\ n >= 2 => (bs[2] >= lo2 /\ bs[2] <= hi2)
                   /\ \A k \in 3..n : IsCont(bs[k])
             lead == IF n = 1 THEN b
                     ELSE IF n = 2 THEN b - 192
                     ELSE IF n = 3 THEN b - 224
                     ELSE b - 240
             cp == Continue(lead, SubSeq(bs, 2, n))
             rest == utf8_decode(SubSeq(bs, n + 1, Len(bs)))
         IN  IF ~ok \/ rest = None THEN None
             ELSE Some(<<cp>> \o rest[1])

(***************************************************************************)
(* The file object self.fp and the readers built on it.  A reader takes    *)
(* the decoder object o it is bound to and gives the exception it raises   *)
(* (None when it returns), the value it returns and o's file object after  *)
(* the read.                                                               *)
(***************************************************************************)
\* fp.read(n): the next n bytes, or what is left of the file when fewer
\* remain or n is negative; the position moves past what was read
fp_read(fp, n) ==
    LET end == IF n < 0 THEN Len(fp.bytes) ELSE Min(fp.pos + n, Len(fp.bytes))
    IN  [data |-> SubSeq(fp.bytes, fp.pos + 1, end),
         fp   |-> [fp EXCEPT !.pos = end]]

Raised(e, fp) == [exc |-> e, val |-> None, fp |-> fp]

Returned(v, fp) == [exc |-> None, val |-> v, fp |-> fp]

\* self.unpack_one(fmt, self.fp.read(calcsize(fmt)))
read_fixed(o, fmt) ==
    IF o.fp = None THEN Raised(<<"AttributeError">>, o.fp)
    ELSE LET r == fp_read(o.fp[1], calcsize(fmt))
             v == unpack_one(fmt, r.data)
         IN  IF v = None THEN Raised(<<"struct.error">>, Some(r.fp))
             ELSE Returned(v[1], Some(r.fp))

read_byte(o) == read_fixed(o, "!B")

read_i16(o) == read_fixed(o, "!h")

read_i32(o) == read_fixed(o, "!i")

read_i64(o) == read_fixed(o, "!q")

read_type(o) == read_byte(o)

read_field_id(o) == read_i16(o)

read_bool(o) ==
    LET r == read_byte(o)
    IN  IF r.exc # None THEN r ELSE Returned(r.val # 0, r.fp)

read_string(o) ==
    LET l == read_i32(o)
    IN  IF l.exc # None THEN l
        ELSE LET r == fp_read(l.fp[1], l.val)
                 b == unpack_s(l.val, r.data)
                 s == utf8_decode(b[1])
             IN  IF b = None THEN Raised(<<"struct.error">>, Some(r.fp))
                 ELSE IF s = None THEN Raised(<<"UnicodeDecodeError">>, Some(r.fp))
                 ELSE Returned(s[1], Some(r.fp))

read_double(o) == Raised(<<"NotImplementedError">>, o.fp)

read_map(o) == Raised(<<"NotImplementedError">>, o.fp)

read_set(o) == Raised(<<"NotImplementedError">>, o.fp)

read_list(o) == Raised(<<"NotImplementedError">>, o.fp)

read_enum(o) == Raised(<<"NotImplementedError">>, o.fp)

\* the call of a bound method other than read_struct
Call(fn, o) ==
    CASE fn = "read_bool"   -> read_bool(o)
      [] fn = "read_byte"   -> read_byte(o)
      [] fn = "read_double" -> read_double(o)
      [] fn = "read_i16"    -> read_i16(o)
      [] fn = "read_i32"    -> read_i32(o)
      [] fn = "read_i64"    -> read_i64(o)
      [] fn = "read_string" -> read_string(o)
      [] fn = "read_map"    -> read_map(o)
      [] fn = "read_set"    -> read_set(o)
      [] fn = "read_list"   -> read_list(o)
      [] fn = "read_enum"   -> read_enum(o)

(***************************************************************************)
(* The tables __init__ fills                                               *)
(***************************************************************************)
HandlerNames ==
    (2 :> "read_bool") @@ (3 :> "read_byte") @@ (4 :> "read_double") @@
    (6 :> "read_i16") @@ (8 :> "read_i32") @@ (10 :> "read_i64") @@
    (11 :> "read_string") @@ (12 :> "read_struct") @@ (13 :> "read_map") @@
    (14 :> "read_set") @@ (15 :> "read_list") @@ (16 :> "read_enum")

type_names ==
    (2 :> "bool") @@ (3 :> "byte") @@ (4 :> "double") @@
    (6 :> "i16") @@ (8 :> "i32") @@ (10 :> "i64") @@
    (11 :> "string") @@ (12 :> "struct") @@ (13 :> "map") @@
    (14 :> "set") @@ (15 :> "list") @@ (16 :> "enum")

message_types == (1 :> "call") @@ (2 :> "reply") @@ (3 :> "oneway")

\* the unpacked VERSION_1 = b'\x80\x01'
VERSION_1 == unpack_one("!h", <<128, 1>>)[1]

\* the decimal digits of n as code points
RECURSIVE Decimal(_)
Decimal(n) ==
    IF n < 10 THEN <<48 + n>> ELSE Decimal(n \div 10) \o <<48 + (n % 10)>>

\* 'UnknownStruct{}'.format(n)
StructName(n) ==
    <<85, 110, 107, 110, 111, 119, 110, 83, 116, 114, 117, 99, 116>> \o Decimal(n)

\* structs[name] = value on an OrderedDict: a new key goes last, a key
\* already there keeps its place and takes the new value
DictSet(dict, name, value) ==
    IF \E k \in DOMAIN dict : dict[k][1] = name
    THEN [k \in DOMAIN dict |->
            IF dict[k][1] = name THEN <<name, value>> ELSE dict[k]]
    ELSE Append(dict, <<name, value>>)

(***************************************************************************)
(* The input files of the model.  A file is the sequence of its bytes; a   *)
(* command-line argument is a file, named by its content, or one of the    *)
(* values below.                                                           *)
(***************************************************************************)
HelpFlag == <<-1>>

MissingFile == <<-2>>

\* a value of wire type t, as the Thrift Binary Protocol encodes it
Payload(t) ==
    CASE t = 2  -> <<1>>
      [] t = 3  -> <<200>>
      [] t = 4  -> <<63, 240, 0, 0, 0, 0, 0, 0>>
      [] t = 6  -> <<255, 254>>
      [] t = 8  -> <<0, 0, 1, 0>>
      [] t = 10 -> <<255, 255, 255, 255, 255, 255, 255, 255>>
      [] t = 11 -> <<0, 0, 0, 2, 104, 105>>
      [] t = 12 -> <<0>>
      [] t = 13 -> <<8, 8, 0, 0, 0, 0>>
      [] t = 14 -> <<8, 0, 0, 0, 1, 0, 0, 0, 5>>
      [] t = 15 -> <<8, 0, 0, 0, 1, 0, 0, 0, 5>>
      [] t = 16 -> <<0, 0, 0, 3>>
      [] OTHER  -> <<>>

\* a field with type tag t and field id t
FieldTok(t) == <<t, 0, t>> \o Payload(t)

\* w, a word of "(" and ")", nests properly
Balanced(w) ==
    LET Depth(k) == Cardinality({j \in 1..k : w[j] = "("})
                     - Cardinality({j \in 1..k : w[j] = ")"})
    IN  /\ \A k \in 1..Len(w) : Depth(k) >= 0
        /\ Depth(Len(w)) = 0

\* the struct fields a word stands for: "(" opens a field of type struct
\* whose field id is its place in the word, ")" is that struct's stop marker
RECURSIVE Encode(_, _)
Encode(w, k) ==
    IF k > Len(w) THEN <<>>
    ELSE (IF w[k] = "(" THEN <<12, 0, k>> ELSE <<0>>) \o Encode(w, k + 1)

\* every struct body holding at most MaxStructs structs and nothing else
NestBodies ==
    {Encode(w, 1) \o <<0>> :
        w \in {v \in UNION {[1..(2 * n) -> {"(", ")"}] : n \in 0..MaxStructs} :
                  Balanced(v)}}

\* one field of each type tag, registered or not
FlatBodies == {FieldTok(t) \o <<0>> : t \in 1..MaxTag}

\* the same field inside a nested struct between two scalar fields
InnerBodies ==
    {FieldTok(6) \o <<12, 0, 1>> \o FieldTok(t) \o <<0>> \o FieldTok(2) \o <<0>> :
        t \in 1..MaxTag}

ScalarBody ==
    FieldTok(2) \o FieldTok(3) \o FieldTok(6) \o FieldTok(8) \o FieldTok(10)
        \o FieldTok(11) \o <<0>>

Bodies == NestBodies \cup FlatBodies \cup InnerBodies \cup {ScalarBody}

Versions == {<<128, 1>>, <<0, 1>>}

\* "ping"
Ping == <<0, 0, 0, 4, 112, 105, 110, 103>>

\* "ping", "", a byte that is not UTF-8, a negative length, "e" with an acute
Methods ==
    {Ping, <<0, 0, 0, 0>>, <<0, 0, 0, 1, 255>>, <<255, 255, 255, 255>>,
     <<0, 0, 0, 2, 195, 169>>}

Hdr(v, k, m) == v \o <<0, k>> \o m \o <<0, 0, 0, 42>>

BaseFiles ==
    {Hdr(v, 1, Ping) \o b : v \in Versions, b \in Bodies}
    \cup {Hdr(v, k, m) \o <<0>> : v \in Versions, k \in 0..MaxKind, m \in Methods}

\* the base files and every truncation of one
Files == UNION {{SubSeq(f, 1, n) : n \in 0..Len(f)} : f \in BaseFiles}

\* the same file with the other version in its first two bytes
SwapVersion(f) ==
    (IF SubSeq(f, 1, 2) = <<128, 1>> THEN <<0, 1>> ELSE <<128, 1>>)
        \o SubSeq(f, 3, Len(f))

\* the arguments of a batch of several files
BatchArgs ==
    {HelpFlag, MissingFile,
     Hdr(<<128, 1>>, 1, Ping) \o <<0>>,
     Hdr(<<0, 1>>, 2, Ping) \o FieldTok(12) \o <<0>>,
     Hdr(<<128, 1>>, 3, Ping) \o FieldTok(6) \o <<0>>,
     Hdr(<<128, 1>>, 4, Ping) \o <<0>>,
     Hdr(<<128, 1>>, 1, Ping),
     Hdr(<<128, 1>>, 2, Ping) \o FieldTok(4) \o <<0>>}

RECURSIVE SeqsUpTo(_, _)
SeqsUpTo(S, n) ==
    IF n = 0 THEN {<<>>}
    ELSE LET shorter == SeqsUpTo(S, n - 1)
         IN  shorter \cup {Append(q, x) : q \in shorter, x \in S}

\* the command lines of the model: one file, a file and the same file with
\* the other version, or a batch
ArgLists ==
    {<<f>> : f \in Files}
    \cup {<<f, SwapVersion(f)>> : f \in {g \in Files : Len(g) >= 2}}
    \cup SeqsUpTo(BatchArgs, MaxArgs)

\* the files an arbitrary caller decodes: the last three carry bytes after
\* the stop marker of the message
LibFiles ==
    {Hdr(<<128, 1>>, 1, Ping) \o <<0>>,
     Hdr(<<128, 1>>, 1, Ping) \o FieldTok(12) \o <<0>>,
     Hdr(<<128, 1>>, 1, Ping) \o FieldTok(6) \o <<0>>,
     Hdr(<<128, 1>>, 1, Ping) \o <<12, 0, 1>> \o FieldTok(12) \o <<0, 0>>,
     Hdr(<<0, 1>>, 1, Ping) \o FieldTok(1) \o <<0>>,
     Hdr(<<128, 1>>, 1, Ping) \o <<0>> \o <<7, 7, 0>>,
     Hdr(<<128, 1>>, 1, Ping) \o <<0>> \o FieldTok(12) \o <<0>>,
     Hdr(<<128, 1>>, 1, Ping) \o <<0>>
         \o <<12, 0, 1>> \o FieldTok(12) \o <<0, 0>>}

(***************************************************************************)
(* The state                                                               *)
(***************************************************************************)
VARIABLES
    args,           \* sys.argv[1:]
    app_pc,         \* the statement run_app is at; "lib" for another caller
    i,              \* how many of input_files the for loop has taken
    decoded,        \* run_app's list of reports
    stdout,
    stderr,
    heap,           \* the ThriftDecoder objects, in the order of construction
    type_handlers,  \* the class attribute ThriftDecoder.type_handlers
    stack,          \* the calls of decode and read_struct in progress
    exc,            \* the exception being propagated, or None
    ncalls          \* the decode calls made by a caller other than run_app

vars ==
    <<args, app_pc, i, decoded, stdout, stderr, heap, type_handlers, stack,
      exc, ncalls>>

\* the attributes __init__ gives a new object
NewObject ==
    [fp |-> None, version |-> None, message_type |-> None,
     method_name |-> None, sequence_id |-> None, fields |-> <<>>,
     structs |-> <<>>, struct_name_counter |-> 0]

\* the handlers __init__ stores in the class attribute: methods bound to self
BoundHandlers(self) ==
    [t \in DOMAIN HandlerNames |-> [fn |-> HandlerNames[t], self |-> self]]

\* ThriftDecoder(): a new object, and the class's handlers rebound to it
Construct ==
    /\ heap' = Append(heap, NewObject)
    /\ type_handlers' = BoundHandlers(Len(heap) + 1) @@ type_handlers

\* a call frame: decode (with read_header inlined) or read_struct, its self,
\* the statement it is at, and its locals
Frame(fn, self, pc, arg) ==
    [fn |-> fn, self |-> self, pc |-> pc, arg |-> arg, fields |-> <<>>,
     t |-> None, field_id |-> None, field_data |-> None, struct_name |-> None]

Top == stack[Len(stack)]

SetTop(f) == [stack EXCEPT ![Len(stack)] = f]

Pop == SubSeq(stack, 1, Len(stack) - 1)

At(fn, pc) == stack # <<>> /\ exc = None /\ Top.fn = fn /\ Top.pc = pc

\* the outcome of a reader bound to object s: the exception is raised from
\* the statement the frame is at, or the object and the frame move on
Outcome(r, s, obj, frame) ==
    IF r.exc # None
    THEN /\ exc' = r.exc
         /\ heap' = [heap EXCEPT ![s].fp = r.fp]
         /\ stack' = stack
    ELSE /\ exc' = exc
         /\ heap' = [heap EXCEPT ![s] = obj]
         /\ stack' = SetTop(frame)

(***************************************************************************)
(* decode and read_header                                                  *)
(***************************************************************************)
\* self.fp = open(fn, 'rb')
Open ==
    /\ At("decode", "open")
    /\ IF Top.arg \in {MissingFile, HelpFlag}
       THEN /\ exc' = <<"FileNotFoundError">>
            /\ UNCHANGED <<heap, stack>>
       ELSE /\ heap' = [heap EXCEPT ![Top.self].fp =
                            Some([bytes |-> Top.arg, pos |-> 0])]
            /\ stack' = SetTop([Top EXCEPT !.pc = "version"])
            /\ exc' = exc
    /\ UNCHANGED <<args, app_pc, i, decoded, stdout, stderr, type_handlers, ncalls>>

VersionWarning == "Warning: unexpected version {}"

\* read_header without its warning
CheckVersion_Silent(v) == <<>>

\* the warning read_header gives for version v
CheckVersion(v) == IF v # VERSION_1 THEN <<VersionWarning>> ELSE <<>>

\* self.version = self.read_i16() and the version check
ReadVersion ==
    /\ At("decode", "version")
    /\ LET s == Top.self
           r == read_i16(heap[s])
       IN  /\ Outcome(r, s, [heap[s] EXCEPT !.fp = r.fp, !.version = Some(r.val)],
                      [Top EXCEPT !.pc = "message_type"])
           /\ stderr' = IF r.exc = None THEN stderr \o CheckVersion(r.val)
                        ELSE stderr
    /\ UNCHANGED <<args, app_pc, i, decoded, stdout, type_handlers, ncalls>>

\* self.message_type = self.read_i16()
ReadMessageType ==
    /\ At("decode", "message_type")
    /\ LET s == Top.self
           r == read_i16(heap[s])
       IN  Outcome(r, s, [heap[s] EXCEPT !.fp = r.fp, !.message_type = Some(r.val)],
                   [Top EXCEPT !.pc = "method_name"])
    /\ UNCHANGED <<args, app_pc, i, decoded, stdout, stderr, type_handlers, ncalls>>

\* self.method_name = self.read_string()
ReadMethodName ==
    /\ At("decode", "method_name")
    /\ LET s == Top.self
           r == read_string(heap[s])
       IN  Outcome(r, s, [heap[s] EXCEPT !.fp = r.fp, !.method_name = Some(r.val)],
                   [Top EXCEPT !.pc = "sequence_id"])
    /\ UNCHANGED <<args, app_pc, i, decoded, stdout, stderr, type_handlers, ncalls>>

\* self.sequence_id = self.read_i32()
ReadSequenceId ==
    /\ At("decode", "sequence_id")
    /\ LET s == Top.self
           r == read_i32(heap[s])
       IN  Outcome(r, s, [heap[s] EXCEPT !.fp = r.fp, !.sequence_id = Some(r.val)],
                   [Top EXCEPT !.pc = "read_struct"])
    /\ UNCHANGED <<args, app_pc, i, decoded, stdout, stderr, type_handlers, ncalls>>

\* the call self.read_struct() of read_header
CallReadStruct ==
    /\ At("decode", "read_struct")
    /\ stack' = Append(stack, Frame("read_struct", Top.self, "read_type", None))
    /\ UNCHANGED <<args, app_pc, i, decoded, stdout, stderr, heap, type_handlers,
                   exc, ncalls>>

\* self.fields = <the top-level struct>; read_header and decode return
AssignFields ==
    /\ At("decode", "assign")
    /\ heap' = [heap EXCEPT ![Top.self].fields = Top.field_data[1]]
    /\ stack' = Pop
    /\ UNCHANGED <<args, app_pc, i, decoded, stdout, stderr, type_handlers, exc,
                   ncalls>>

(***************************************************************************)
(* read_struct                                                             *)
(***************************************************************************)
\* t = self.read_type(), and the test of the while loop
ReadType ==
    /\ At("read_struct", "read_type")
    /\ LET s == Top.self
           r == read_type(heap[s])
       IN  Outcome(r, s, [heap[s] EXCEPT !.fp = r.fp],
                   [Top EXCEPT !.t = Some(r.val),
                               !.pc = IF r.val # 0 THEN "read_field_id"
                                      ELSE "return"])
    /\ UNCHANGED <<args, app_pc, i, decoded, stdout, stderr, type_handlers, ncalls>>

\* field_id = self.read_field_id()
ReadFieldId ==
    /\ At("read_struct", "read_field_id")
    /\ LET s == Top.self
           r == read_field_id(heap[s])
       IN  Outcome(r, s, [heap[s] EXCEPT !.fp = r.fp],
                   [Top EXCEPT !.field_id = Some(r.val), !.pc = "handler"])
    /\ UNCHANGED <<args, app_pc, i, decoded, stdout, stderr, type_handlers, ncalls>>

\* field_data = self.type_handlers[t](): the look-up raises KeyError for a
\* tag that is no key; a handler other than read_struct runs on the object it
\* is bound to; read_struct is called on that object
Handler ==
    /\ At("read_struct", "handler")
    /\ LET t == Top.t[1]
       IN  IF t \notin DOMAIN type_handlers
           THEN /\ exc' = <<"KeyError", t>>
                /\ UNCHANGED <<heap, stack>>
           ELSE LET h == type_handlers[t]
                IN  IF h.fn = "read_struct"
                    THEN /\ stack' = Append(stack,
                                Frame("read_struct", h.self, "read_type", None))
                         /\ UNCHANGED <<heap, exc>>
                    ELSE LET r == Call(h.fn, heap[h.self])
                         IN  Outcome(r, h.self, [heap[h.self] EXCEPT !.fp = r.fp],
                                     [Top EXCEPT !.field_data = Some(r.val),
                                                 !.pc = "append"])
    /\ UNCHANGED <<args, app_pc, i, decoded, stdout, stderr, type_handlers, ncalls>>

\* return tuple(fields): the caller takes the field list; read_header goes
\* on to assign it, read_struct to register it
Return ==
    /\ At("read_struct", "return")
    /\ LET caller == stack[Len(stack) - 1]
       IN  stack' = [Pop EXCEPT ![Len(stack) - 1] =
                        [caller EXCEPT !.field_data = Some(Top.fields),
                                       !.pc = IF caller.fn = "decode" THEN "assign"
                                              ELSE "register"]]
    /\ UNCHANGED <<args, app_pc, i, decoded, stdout, stderr, heap, type_handlers,
                   exc, ncalls>>

\* the registration without counter += 1
RegisterStruct_NoIncrement(o, field_data) ==
    [o EXCEPT !.structs = DictSet(o.structs, StructName(o.struct_name_counter),
                                  field_data)]

\* the object after struct_name = 'UnknownStruct{}'.format(counter),
\* counter += 1 and self.structs[struct_name] = field_data
RegisterStruct(o, field_data) ==
    [o EXCEPT !.struct_name_counter = o.struct_name_counter + 1,
              !.structs = DictSet(o.structs, StructName(o.struct_name_counter),
                                  field_data)]

\* the statements of the branch t == 12 before fields.append
Register ==
    /\ At("read_struct", "register")
    /\ LET s == Top.self
       IN  /\ heap' = [heap EXCEPT ![s] = RegisterStruct(heap[s], Top.field_data[1])]
           /\ stack' = SetTop([Top EXCEPT
                   !.struct_name = Some(StructName(heap[s].struct_name_counter)),
                   !.pc = "append"])
    /\ UNCHANGED <<args, app_pc, i, decoded, stdout, stderr, type_handlers, exc,
                   ncalls>>

\* the tuple read_struct appends for a field
FieldTuple(f) ==
    <<f.field_id[1], f.t[1],
      IF f.t[1] = 12 THEN f.struct_name[1] ELSE f.field_data[1]>>

\* fields.append(...), in either branch
AppendField ==
    /\ At("read_struct", "append")
    /\ stack' = SetTop([Top EXCEPT !.fields = Append(Top.fields, FieldTuple(Top)),
                                   !.pc = "read_type"])
    /\ UNCHANGED <<args, app_pc, i, decoded, stdout, stderr, heap, type_handlers,
                   exc, ncalls>>

\* read_struct with a try statement that returns the fields read so far
Propagate_Partial ==
    IF Top.fn = "read_struct"
    THEN LET caller == stack[Len(stack) - 1]
         IN  [stack |-> [Pop EXCEPT ![Len(stack) - 1] =
                            [caller EXCEPT !.field_data = Some(Top.fields),
                                           !.pc = IF caller.fn = "decode"
                                                  THEN "assign" ELSE "register"]],
              exc |-> None]
    ELSE [stack |-> Pop, exc |-> exc]

\* what becomes of the stack and of the exception when the exception leaves
\* the innermost frame: neither read_struct nor read_header nor decode has a
\* try statement, so the frame ends and the exception goes on to its caller
Propagate == [stack |-> Pop, exc |-> exc]

Unwind ==
    /\ stack # <<>>
    /\ exc # None
    /\ stack' = Propagate.stack
    /\ exc' = Propagate.exc
    /\ UNCHANGED <<args, app_pc, i, decoded, stdout, stderr, heap, type_handlers,
                   ncalls>>

DecodeStep ==
    \/ Open
    \/ ReadVersion
    \/ ReadMessageType
    \/ ReadMethodName
    \/ ReadSequenceId
    \/ CallReadStruct
    \/ AssignFields
    \/ ReadType
    \/ ReadFieldId
    \/ Handler
    \/ Return
    \/ Register
    \/ AppendField
    \/ Unwind

(***************************************************************************)
(* DecoderApp.run_app                                                      *)
(***************************************************************************)
\* the decoder object of the current iteration
d == Len(heap)

_format_field(f) == <<"  id: ", f[1], type_names[f[2]], f[3]>>

RECURSIVE StructLines(_)
StructLines(structs) ==
    IF structs = <<>> THEN <<>>
    ELSE <<<<"struct", Head(structs)[1]>>, <<"">>>>
            \o [k \in DOMAIN Head(structs)[2] |-> _format_field(Head(structs)[2][k])]
            \o StructLines(Tail(structs))

\* str(o), line by line, for an object whose message type has a name
str(o) ==
    <<<<"version: ", o.version[1]>>,
      <<"type:    ", o.message_type[1], message_types[o.message_type[1]]>>,
      <<"method:  ", o.method_name[1]>>,
      <<"seq id:  ", o.sequence_id[1]>>,
      <<"">>,
      <<"Message:">>>>
    \o [k \in DOMAIN o.fields |-> _format_field(o.fields[k])]
    \o (IF o.structs # <<>>
        THEN <<<<"">>, <<"Structs:">>>> \o StructLines(o.structs)
        ELSE <<>>)

\* the test of the usage branch, and input_files = args[1:], decoded = []
AppStart ==
    /\ app_pc = "start"
    /\ IF Len(args) = 0 \/ \E k \in DOMAIN args : args[k] = HelpFlag
       THEN /\ stdout' = Append(stdout, <<"usage">>)
            /\ app_pc' = "exit"
       ELSE /\ app_pc' = "for"
            /\ stdout' = stdout
    /\ UNCHANGED <<args, i, decoded, stderr, heap, type_handlers, stack, exc, ncalls>>

\* for fn in input_files: d = ThriftDecoder()
AppConstruct ==
    /\ app_pc = "for"
    /\ i < Len(args)
    /\ i' = i + 1
    /\ Construct
    /\ app_pc' = "decode"
    /\ UNCHANGED <<args, decoded, stdout, stderr, stack, exc, ncalls>>

\* d.decode(fn)
AppDecode ==
    /\ app_pc = "decode"
    /\ stack' = <<Frame("decode", d, "open", args[i])>>
    /\ app_pc' = "str"
    /\ UNCHANGED <<args, i, decoded, stdout, stderr, heap, type_handlers, exc, ncalls>>

\* decoded.append(str(d)): __str__ looks the message type up in message_types
AppStr ==
    /\ app_pc = "str"
    /\ stack = <<>>
    /\ exc = None
    /\ IF heap[d].message_type[1] \notin DOMAIN message_types
       THEN /\ exc' = <<"KeyError", heap[d].message_type[1]>>
            /\ UNCHANGED <<decoded, app_pc>>
       ELSE /\ decoded' = Append(decoded, str(heap[d]))
            /\ app_pc' = "for"
            /\ exc' = exc
    /\ UNCHANGED <<args, i, stdout, stderr, heap, type_handlers, stack, ncalls>>

\* the call print of the joined reports, after the loop
AppOutput ==
    /\ app_pc = "for"
    /\ i = Len(args)
    /\ stdout' = Append(stdout, <<"reports", decoded>>)
    /\ app_pc' = "exit"
    /\ UNCHANGED <<args, i, decoded, stderr, heap, type_handlers, stack, exc, ncalls>>

\* an exception nothing handles leaves run_app: the interpreter writes the
\* traceback and exits
AppCrash ==
    /\ app_pc = "str"
    /\ stack = <<>>
    /\ exc # None
    /\ stderr' = Append(stderr, "Traceback")
    /\ app_pc' = "crashed"
    /\ UNCHANGED <<args, i, decoded, stdout, heap, type_handlers, stack, exc, ncalls>>

Init ==
    /\ args \in ArgLists
    /\ app_pc = "start"
    /\ i = 0
    /\ decoded = <<>>
    /\ stdout = <<>>
    /\ stderr = <<>>
    /\ heap = <<>>
    /\ type_handlers = <<>>
    /\ stack = <<>>
    /\ exc = None
    /\ ncalls = 0

Next ==
    \/ AppStart
    \/ AppConstruct
    \/ AppDecode
    \/ AppStr
    \/ AppOutput
    \/ AppCrash
    \/ DecodeStep

Spec == Init /\ [][Next]_vars

(***************************************************************************)
(* A caller other than run_app: it constructs decoders and calls decode on *)
(* any of them, one call at a time, and handles what a call raises.        *)
(***************************************************************************)
LibConstruct ==
    /\ app_pc = "lib"
    /\ stack = <<>>
    /\ exc = None
    /\ Len(heap) < MaxObjs
    /\ Construct
    /\ UNCHANGED <<args, app_pc, i, decoded, stdout, stderr, stack, exc, ncalls>>

LibDecode ==
    /\ app_pc = "lib"
    /\ stack = <<>>
    /\ exc = None
    /\ ncalls < MaxCalls
    /\ \E s \in DOMAIN heap, fn \in LibFiles :
          stack' = <<Frame("decode", s, "open", fn)>>
    /\ ncalls' = ncalls + 1
    /\ UNCHANGED <<args, app_pc, i, decoded, stdout, stderr, heap, type_handlers, exc>>

LibCatch ==
    /\ app_pc = "lib"
    /\ stack = <<>>
    /\ exc # None
    /\ exc' = None
    /\ UNCHANGED <<args, app_pc, i, decoded, stdout, stderr, heap, type_handlers,
                   stack, ncalls>>

InitLib ==
    /\ args = <<>>
    /\ app_pc = "lib"
    /\ i = 0
    /\ decoded = <<>>
    /\ stdout = <<>>
    /\ stderr = <<>>
    /\ heap = <<>>
    /\ type_handlers = <<>>
    /\ stack = <<>>
    /\ exc = None
    /\ ncalls = 0

NextLib ==
    \/ LibConstruct
    \/ LibDecode
    \/ LibCatch
    \/ DecodeStep

SpecLib == InitLib /\ [][NextLib]_vars

(***************************************************************************)
(* The properties                                                          *)
(***************************************************************************)
StructError == <<"struct.error">>

\* the struct-typed fields of a field list
StructFields(fl) == {fl[k] : k \in {j \in DOMAIN fl : fl[j][2] = 12}}

\* the N of the name UnknownStruct<N>
NameNumber(name) == CHOOSE n \in 0..(MaxStructs + MaxCalls + 2) : StructName(n) = name

\* the bytes left in the file of object o
Avail(o) == Len(o.fp[1].bytes) - o.fp[1].pos

\* C1: the names of one decode are distinct, numbered from 0 by one counter,
\* and numbered in the order the structs are first met on the wire: the name
\* of a struct has a smaller number than the name of any struct inside it.
C1_FirstDiscoveryOrder ==
    \A k \in DOMAIN heap :
        LET T == heap[k].structs
        IN  /\ \A p \in DOMAIN T : T[p][1] = StructName(p - 1)
            /\ \A p \in DOMAIN T : \A f \in StructFields(T[p][2]) :
                   NameNumber(f[3]) > NameNumber(T[p][1])

\* C2: while a decode call runs on one decoder object, no step of it changes
\* another decoder object: not its file position, its field list, its
\* StructTable or its name counter.
C2_NoSharedState ==
    [][stack # <<>> =>
          \A k \in DOMAIN heap : k # stack[1].self => heap'[k] = heap[k]]_vars

\* C3: the handler of each of the twelve wire types consumes a value: when
\* the handler of a registered type tag fails, the value was cut short or is
\* not UTF-8, and no other failure comes from it.
C3_AllTypesDecode ==
    (/\ stack # <<>>
     /\ exc # None
     /\ Top.fn = "read_struct"
     /\ Top.pc = "handler"
     /\ Top.t[1] \in DOMAIN HandlerNames)
        => exc[1] \in {"struct.error", "UnicodeDecodeError"}

\* C4: a struct reader that has read a non-zero type tag with no registry
\* entry fails at the tag: unless the input ends there, it does not go on to
\* consume the field id, so that the failure is raised with the cursor just
\* past the tag byte.
C4_UnknownTypeAtTag ==
    \A k \in DOMAIN stack :
        LET f == stack[k]
        IN  (/\ f.fn = "read_struct"
             /\ f.t # None
             /\ f.t[1] # 0
             /\ f.t[1] \notin DOMAIN HandlerNames
             /\ exc # StructError)
                => f.pc = "read_field_id"

\* C6: every decode call starts with an empty StructTable and a name counter
\* of 0.
C6_FreshPerCall ==
    At("decode", "open") =>
        /\ heap[Top.self].structs = <<>>
        /\ heap[Top.self].struct_name_counter = 0

\* C7: a decoder that has read a message type outside {1, 2, 3} reads neither
\* the method name nor the sequence id nor the struct body.
C7_KindChecked ==
    \A k \in DOMAIN heap :
        (/\ heap[k].message_type # None
         /\ heap[k].message_type[1] \notin DOMAIN message_types)
            => /\ heap[k].method_name = None
               /\ heap[k].sequence_id = None

\* C9: a failure on one input of a batch does not take the other inputs'
\* results away: when run_app has ended, by its return or by an exception,
\* the report of every input that decoded has been written to stdout.
C9_BatchContinues ==
    (app_pc \in {"exit", "crashed"} /\ decoded # <<>>)
        => \E k \in DOMAIN stdout : stdout[k] = <<"reports", decoded>>

\* a string read on object o finds fewer bytes than its length prefix and
\* the length it gives ask for
StringShort(o) ==
    \/ Avail(o) < 4
    \/ LET l == read_i32(o).val IN l >= 0 /\ Avail(o) - 4 < l

\* the bytes a fixed-width reader asks for
Width(fn) ==
    CASE fn \in {"read_bool", "read_byte"} -> 1
      [] fn = "read_i16" -> 2
      [] fn = "read_i32" -> 4
      [] fn = "read_i64" -> 8

\* the statement the innermost frame is at reads from a file that ends
\* before the read is complete
ReadsShort ==
    /\ stack # <<>>
    /\ exc = None
    /\ LET o == heap[Top.self]
       IN  \/ Top.pc \in {"version", "message_type", "read_field_id"} /\ Avail(o) < 2
           \/ Top.pc = "sequence_id" /\ Avail(o) < 4
           \/ Top.pc = "read_type" /\ Avail(o) < 1
           \/ Top.pc = "method_name" /\ StringShort(o)
           \/ /\ Top.pc = "handler"
              /\ Top.t[1] \in DOMAIN type_handlers
              /\ LET h == type_handlers[Top.t[1]]
                 IN  \/ /\ h.fn \in {"read_bool", "read_byte", "read_i16",
                                     "read_i32", "read_i64"}
                        /\ Avail(heap[h.self]) < Width(h.fn)
                     \/ h.fn = "read_string" /\ StringShort(heap[h.self])

\* a step that adds an entry to a StructTable is taken with the cursor just
\* past a stop marker: the entry is the field list of a struct read to its end
InsertAfterStop ==
    \A k \in DOMAIN heap :
        Len(heap'[k].structs) > Len(heap[k].structs) =>
            /\ heap[k].fp # None
            /\ heap[k].fp[1].pos >= 1
            /\ heap[k].fp[1].bytes[heap[k].fp[1].pos] = 0
            /\ heap'[k].fp = heap[k].fp

\* C5: a read that the end of the file cuts short raises struct.error (the
\* TruncatedInput of the code); the exception then leaves every frame on the
\* stack, one after the other, unchanged, and ends run_app; after it is raised
\* no decoder object changes and no report is added or written; the message's
\* field list is never assigned; and a StructTable entry is only ever added
\* for a struct whose stop marker was read.
C5_TruncationPropagates ==
    /\ [](exc = StructError => heap[d].fields = <<>>)
    /\ [][/\ ReadsShort => exc' = StructError
          /\ exc = StructError =>
                /\ exc' = StructError
                /\ heap' = heap
                /\ decoded' = decoded
                /\ stdout' = stdout
                /\ IF stack # <<>> THEN stack' = Pop ELSE app_pc' = "crashed"
          /\ InsertAfterStop]_vars

\* C5 witness: the file ends inside a struct nested in a nested struct, after
\* another nested struct was registered, and the exception has left the
\* innermost read_struct
C5_Witness ==
    /\ exc = StructError
    /\ Len(stack) = 3
    /\ stack[3].fn = "read_struct"
    /\ stack[3].pc = "handler"
    /\ stack[3].fields # <<>>
    /\ heap[d].structs # <<>>
    /\ Avail(heap[d]) = 0

\* the lines of stderr that are the version warning
Warnings == SelectSeq(stderr, LAMBDA l : l = VersionWarning)

\* two decoder objects hold the same message, apart from the version
SameApartFromVersion(a, b) ==
    /\ a.message_type = b.message_type
    /\ a.method_name = b.method_name
    /\ a.sequence_id = b.sequence_id
    /\ a.fields = b.fields
    /\ a.structs = b.structs
    /\ a.struct_name_counter = b.struct_name_counter
    /\ a.fp[1].pos = b.fp[1].pos

\* the command line names a file and then the same file with the other
\* version
Twins ==
    /\ Len(args) = 2
    /\ Len(args[1]) >= 2
    /\ args[1] \notin {HelpFlag, MissingFile}
    /\ args[2] = SwapVersion(args[1])

\* C8: a version other than 0x8001 is not fatal. Reading the version never
\* fails when its two bytes are there, whatever they are, and read_header goes
\* on to the message type; one warning is written for each decoder that read
\* another version; and when a file decodes, the same file with the other
\* version decodes too, to the same message apart from the version.
C8_VersionMismatchNotFatal ==
    /\ [](Len(Warnings) = Cardinality({k \in DOMAIN heap :
                /\ heap[k].version # None
                /\ heap[k].version[1] # VERSION_1}))
    /\ []((Twins /\ i = 2 /\ app_pc \in {"exit", "crashed"}) =>
            /\ app_pc = "exit"
            /\ SameApartFromVersion(heap[1], heap[2])
            /\ Len(decoded) = 2
            /\ Tail(decoded[1]) = Tail(decoded[2]))
    /\ [][(At("decode", "version") /\ Avail(heap[Top.self]) >= 2) =>
            /\ exc' = None
            /\ stack'[Len(stack')].pc = "message_type"]_vars

\* C8 witness: a file with nested structs and its twin both decoded, one of
\* them with a warning
C8_Witness ==
    /\ Twins
    /\ app_pc = "exit"
    /\ Len(decoded) = 2
    /\ heap[1].version = Some(1)
    /\ heap[2].version = Some(VERSION_1)
    /\ Len(heap[2].structs) >= 2
    /\ Len(Warnings) = 1

\* a name used in field list fl is a key among the first n entries of table T
Resolved(fl, T, n) ==
    \A f \in StructFields(fl) : \E q \in 1..n : T[q][1] = f[3]

\* every synthetic name in a field list built so far, finished or not, is a
\* key of the StructTable of its decoder, and a name in an entry of the table
\* is the key of an entry inserted before it
NamesResolved ==
    /\ \A k \in DOMAIN heap :
          LET T == heap[k].structs
          IN  /\ Resolved(heap[k].fields, T, Len(T))
              /\ \A p \in DOMAIN T : Resolved(T[p][2], T, p - 1)
    /\ \A j \in DOMAIN stack :
          LET f == stack[j]
              T == heap[f.self].structs
          IN  /\ Resolved(f.fields, T, Len(T))
              /\ f.pc \in {"assign", "register"} =>
                    Resolved(f.field_data[1], T, Len(T))
              /\ (f.pc = "append" /\ f.t[1] = 12) =>
                    \E q \in DOMAIN T : T[q] = <<f.struct_name[1], f.field_data[1]>>

\* a step keeps every entry of every StructTable as it is and where it is
AppendOnly ==
    \A k \in DOMAIN heap :
        /\ Len(heap'[k].structs) >= Len(heap[k].structs)
        /\ SubSeq(heap'[k].structs, 1, Len(heap[k].structs)) = heap[k].structs

\* C10: the StructTable is append-only and never forward-referenced: in
\* every state every synthetic name in a field list is already a key of the
\* table, mapped to the field list of a struct that was read to its stop
\* marker, and no step removes, overwrites or changes an entry.
C10_AppendOnlyResolved ==
    /\ []NamesResolved
    /\ [][AppendOnly /\ InsertAfterStop]_vars

\* C10 witness: a table of three entries, one of them naming another, and an
\* unfinished field list that names an entry
C10_Witness ==
    /\ stack # <<>>
    /\ Len(heap[d].structs) >= 3
    /\ \E p \in DOMAIN heap[d].structs : StructFields(heap[d].structs[p][2]) # {}
    /\ Top.pc = "read_type"
    /\ StructFields(Top.fields) # {}

====
